---- MODULE Spec2Model ----
(***************************************************************************)
(* The click / referral tracking core of bot.py: the users and clicks      *)
(* tables of the SQLite store and the four functions that read and write   *)
(* them (add_user, update_user_activity, add_click, get_user_stats, and    *)
(* the queries of admin_panel).                                            *)
(*                                                                         *)
(* The functions are synchronous and contain no await, so on the single    *)
(* asyncio event loop each call runs to completion before another starts:  *)
(* concurrent handlers interleave at the granularity of whole calls.  Each *)
(* call opens its own connection, runs its statements inside one implicit  *)
(* transaction and closes the connection in its finally block; closing a   *)
(* connection whose transaction was not committed rolls it back.           *)
(*                                                                         *)
(* The profile columns (username, first_name, last_name) and clicked_at    *)
(* are left out of the rows, and with clicked_at the per-day histogram of  *)
(* admin_panel, the only query that reads it.                              *)
(***************************************************************************)
EXTENDS Integers, Sequences, FiniteSets, TLC

\* ---------------------------------------------------------------- bounds
NumIds == 2          \* telegram ids 1..NumIds
NumCodes == 3        \* size of the referral-code space (16^8 in the source)
MaxTime == 1         \* clock readings 0..MaxTime
MaxClicks == 3       \* rows the ledger may hold

\* ------------------------------------------------------------- constants
None == -1

\* a platform table that lists the foreign platform too
PartnerLinksWithUnknown ==
    {"skillbox", "skillfactory", "geekbrains", "unknown_platform"}

PARTNER_LINKS == {"skillbox", "skillfactory", "geekbrains"}

TelegramIds == 1..NumIds
Codes == 0..(NumCodes - 1)
\* course_id arguments: the default of the parameter and a catalogue id
CourseArgs == {None, 5}
\* platform arguments a caller may pass: the three known ones and a foreign one
PlatformArgs == PARTNER_LINKS \cup {"unknown_platform"}

VARIABLES users, clicks, now, last

vars == <<users, clicks, now, last>>

\* ------------------------------------------------------ referral code
\* number of decimal digits of t, as str() renders it
RECURSIVE Digits(_)
Digits(t) == IF t < 10 THEN 1 ELSE 1 + Digits(t \div 10)

RECURSIVE Pow10(_)
Pow10(n) == IF n = 0 THEN 1 ELSE 10 * Pow10(n - 1)

\* f"{telegram_id}{timestamp}": the decimal digits of the id followed by
\* those of the clock reading
Concat(tid, t) == tid * Pow10(Digits(t)) + t

\* md5(...).hexdigest()[:8]: a hash onto the finite code space
Md5Prefix(x) == x % NumCodes

RefCode(tid, t) == Md5Prefix(Concat(tid, t))

\* ------------------------------------------------------------ the store
\* users(id, telegram_id UNIQUE, registered_at, clicks_count, ref_code UNIQUE,
\*       referrer_id, last_active)
UserRow(id, tid, code, referrer, t) ==
    [id |-> id, telegram_id |-> tid, registered_at |-> t, clicks_count |-> 0,
     ref_code |-> code, referrer_id |-> referrer, last_active |-> t]

\* clicks(id, user_id, platform, course_id)
ClickRow(id, user_id, platform, course_id) ==
    [id |-> id, user_id |-> user_id, platform |-> platform, course_id |-> course_id]

\* INTEGER PRIMARY KEY AUTOINCREMENT: one more than the largest id of the table
\* (no statement of the program deletes a row)
NextId(T) == Cardinality(T) + 1

\* telegram_id INTEGER UNIQUE NOT NULL
TelegramIdTaken(U, tid) == \E r \in U : r.telegram_id = tid

\* ref_code TEXT UNIQUE
RefCodeTaken(U, code) == \E r \in U : r.ref_code = code

\* an INSERT without OR IGNORE
OnConflictAbort == "ABORT"

\* the conflict clause of the INSERT of add_user
OnConflict == "IGNORE"

\* the INSERT of add_user raises sqlite3.IntegrityError on a UNIQUE violation
\* only under the default conflict clause, ABORT
InsertRaises(U, tid, code) ==
    OnConflict = "ABORT" /\ (TelegramIdTaken(U, tid) \/ RefCodeTaken(U, code))

\* a users table whose telegram_id column lost its UNIQUE constraint
InsertUserNoUniqueId(U, tid, code, referrer, t) ==
    IF RefCodeTaken(U, code)
    THEN U
    ELSE U \cup {UserRow(NextId(U), tid, code, referrer, t)}

\* INSERT OR REPLACE: a row with the same telegram id is replaced by the new one
InsertUserOrReplace(U, tid, code, referrer, t) ==
    IF RefCodeTaken({r \in U : r.telegram_id # tid}, code)
    THEN U
    ELSE {r \in U : r.telegram_id # tid}
            \cup {UserRow(NextId(U), tid, code, referrer, t)}

\* INSERT OR IGNORE INTO users (...) VALUES (...): the row is dropped when it
\* violates either UNIQUE constraint
InsertUser(U, tid, code, referrer, t) ==
    IF TelegramIdTaken(U, tid) \/ RefCodeTaken(U, code)
    THEN U
    ELSE U \cup {UserRow(NextId(U), tid, code, referrer, t)}

\* an activity update written as an upsert: a missing user gets a row
TouchUserUpsert(U, tid, t) ==
    IF TelegramIdTaken(U, tid)
    THEN {IF r.telegram_id = tid THEN [r EXCEPT !.last_active = t] ELSE r : r \in U}
    ELSE U \cup {UserRow(NextId(U), tid, None, None, t)}

\* UPDATE users SET last_active = CURRENT_TIMESTAMP WHERE telegram_id = ?
TouchUser(U, tid, t) ==
    {IF r.telegram_id = tid THEN [r EXCEPT !.last_active = t] ELSE r : r \in U}

\* SELECT id FROM users WHERE telegram_id = ?  followed by fetchone()
SelectUserId(U, tid) ==
    IF TelegramIdTaken(U, tid)
    THEN (CHOOSE r \in U : r.telegram_id = tid).id
    ELSE None

\* INSERT INTO clicks (user_id, platform, course_id) VALUES (?, ?, ?)
InsertClick(C, user_id, platform, course_id) ==
    C \cup {ClickRow(NextId(C), user_id, platform, course_id)}

\* a counter update that lost its WHERE clause
CountClickEveryUser(U, user_id, t) ==
    {[r EXCEPT !.clicks_count = r.clicks_count + 1, !.last_active = t] : r \in U}

\* a counter update keyed by the telegram id instead of the row id
CountClickByTelegramId(U, user_id, t) ==
    {IF r.telegram_id = user_id
     THEN [r EXCEPT !.clicks_count = r.clicks_count + 1, !.last_active = t]
     ELSE r : r \in U}

\* UPDATE users SET clicks_count = clicks_count + 1,
\*                  last_active = CURRENT_TIMESTAMP WHERE id = ?
CountClick(U, user_id, t) ==
    {IF r.id = user_id
     THEN [r EXCEPT !.clicks_count = r.clicks_count + 1, !.last_active = t]
     ELSE r : r \in U}

\* a connection in autocommit mode: every statement that ran is kept
CloseAutocommit(before, pending, committed) == pending

\* conn.close() in the finally block: what the store holds afterwards is the
\* transaction's work if conn.commit() returned, the state before the call if not
Close(before, pending, committed) == IF committed THEN pending ELSE before

\* ------------------------------------------------------ get_user_stats
\* a join that lost its WHERE clause: the ledger rows of every user
JoinClicksEveryUser(U, C, tid) ==
    {c \in C : \E u \in U : u.id = c.user_id}

\* the ledger rows of the user with this telegram id:
\* clicks c JOIN users u ON c.user_id = u.id WHERE u.telegram_id = ?
JoinClicks(U, C, tid) ==
    {c \in C : \E u \in U : u.id = c.user_id /\ u.telegram_id = tid}

\* SELECT platform, COUNT(*) AS clicks ... GROUP BY platform
GroupByPlatform(rows) ==
    {[platform |-> p, clicks |-> Cardinality({c \in rows : c.platform = p})] :
        p \in {c.platform : c \in rows}}

\* ORDER BY clicks DESC: every order of the groups in which the counts do not
\* increase (SQL leaves the order of equal counts open)
OrderByClicksDesc(groups) ==
    {s \in [1..Cardinality(groups) -> groups] :
        /\ \A i, j \in DOMAIN s : i # j => s[i] # s[j]
        /\ \A i, j \in DOMAIN s : i < j => s[i].clicks >= s[j].clicks}

\* the user query with JOIN in place of LEFT JOIN: a user without clicks has no
\* row in the result
UserDataInnerJoin(U, C, tid) ==
    {[row |-> u,
      platforms_count |-> Cardinality({c.platform : c \in {d \in C : d.user_id = u.id}}),
      total_clicks |-> Cardinality({c \in C : c.user_id = u.id})] :
        u \in {r \in U : r.telegram_id = tid /\ \E c \in C : c.user_id = r.id}}

\* SELECT u.*, COUNT(DISTINCT c.platform) AS platforms_count,
\*        COUNT(c.id) AS total_clicks
\* FROM users u LEFT JOIN clicks c ON u.id = c.user_id
\* WHERE u.telegram_id = ? GROUP BY u.id
UserData(U, C, tid) ==
    {[row |-> u,
      platforms_count |-> Cardinality({c.platform : c \in {d \in C : d.user_id = u.id}}),
      total_clicks |-> Cardinality({c \in C : c.user_id = u.id})] :
        u \in {r \in U : r.telegram_id = tid}}

\* ---------------------------------------------------------------- state
Init ==
    /\ users = {}
    /\ clicks = {}
    /\ now = 0
    /\ last = [op |-> "init"]

\* where a store fault may strike each function
AddUserFaults == {"none", "connect", "execute", "commit"}
ActivityFaults == {"none", "connect", "execute", "commit"}
AddClickFaults == {"none", "connect", "select", "insert", "update", "commit"}
StatsFaults == {"none", "connect", "execute"}

\* ---------------------------------------------------------------- add_user
AddUser(tid, referrer, f) ==
    LET ref_code == RefCode(tid, now)
        raised == f = "connect"
        failed == f = "execute" \/ (f # "connect" /\ InsertRaises(users, tid, ref_code))
        pending == IF raised \/ failed THEN users
                   ELSE InsertUser(users, tid, ref_code, referrer, now)
        rowcount == Cardinality(pending) - Cardinality(users)
        committed == ~raised /\ ~failed /\ f # "commit"
    IN /\ users' = Close(users, pending, committed)
       /\ last' = [op |-> "add_user", tid |-> tid, referrer |-> referrer,
                   fault |-> f, raised |-> raised,
                   existed |-> TelegramIdTaken(users, tid),
                   ret |-> IF committed THEN ref_code ELSE None,
                   log |-> (IF rowcount > 0 THEN {"info"} ELSE {})
                           \cup (IF ~raised /\ ~committed THEN {"error"} ELSE {})]
       /\ UNCHANGED <<clicks, now>>

\* ---------------------------------------------------- update_user_activity
UpdateUserActivity(tid, f) ==
    LET raised == f = "connect"
        failed == f = "execute"
        pending == IF raised \/ failed THEN users ELSE TouchUser(users, tid, now)
        committed == ~raised /\ ~failed /\ f # "commit"
    IN /\ users' = Close(users, pending, committed)
       /\ last' = [op |-> "update_user_activity", tid |-> tid,
                   fault |-> f, raised |-> raised,
                   existed |-> TelegramIdTaken(users, tid),
                   ret |-> None,
                   log |-> IF ~raised /\ ~committed THEN {"error"} ELSE {}]
       /\ UNCHANGED <<clicks, now>>

\* --------------------------------------------------------------- add_click
\* the statements of add_click's try block up to the point the fault f strikes:
\* the tables as the open transaction sees them
ClickTransaction(U, C, user_id, platform, course_id, f, t) ==
    IF f = "select" \/ user_id = None \/ f = "insert"
    THEN [users |-> U, clicks |-> C]
    ELSE IF f = "update"
    THEN [users |-> U, clicks |-> InsertClick(C, user_id, platform, course_id)]
    ELSE [users |-> CountClick(U, user_id, t),
          clicks |-> InsertClick(C, user_id, platform, course_id)]

\* which exit add_click leaves by
ClickPath(U, tid, platform, f) ==
    IF platform \notin PARTNER_LINKS THEN "unknown_platform"
    ELSE IF f = "connect" THEN "raised"
    ELSE IF f = "select" THEN "except"
    ELSE IF SelectUserId(U, tid) = None THEN "not_found"
    ELSE IF f = "none" THEN "done"
    ELSE "except"

AddClick(tid, platform, course_id, f) ==
    LET path == ClickPath(users, tid, platform, f)
        user_id == SelectUserId(users, tid)
        before == [users |-> users, clicks |-> clicks]
        pending == IF path \in {"unknown_platform", "raised"} THEN before
                   ELSE ClickTransaction(users, clicks, user_id, platform,
                                         course_id, f, now)
        after == Close(before, pending, path = "done")
    IN \* the ledger is capped at MaxClicks rows
       /\ Cardinality(pending.clicks) <= MaxClicks
       \* a rejected platform returns before any connection is opened: no fault
       /\ path = "unknown_platform" => f = "none"
       /\ users' = after.users
       /\ clicks' = after.clicks
       /\ last' = [op |-> "add_click", tid |-> tid, platform |-> platform,
                   course_id |-> course_id, fault |-> f, raised |-> path = "raised",
                   existed |-> TelegramIdTaken(users, tid),
                   path |-> path,
                   ret |-> None,
                   log |-> CASE path = "unknown_platform" -> {"warning"}
                             [] path = "not_found" -> {"warning"}
                             [] path = "except" -> {"error"}
                             [] path = "done" -> {"info"}
                             [] OTHER -> {}]
       /\ UNCHANGED now

\* ----------------------------------------------------------- get_user_stats
GetUserStats(tid, f) ==
    LET user_data == UserData(users, clicks, tid)
        groups == GroupByPlatform(JoinClicks(users, clicks, tid))
    IN /\ \/ /\ f = "none"
             /\ user_data # {}
             /\ \E platforms_clicks \in OrderByClicksDesc(groups) :
                   last' = [op |-> "get_user_stats", tid |-> tid, fault |-> f,
                            raised |-> FALSE, found |-> TRUE, log |-> {},
                            user |-> CHOOSE d \in user_data : TRUE,
                            platforms_clicks |-> platforms_clicks]
          \/ /\ f # "none" \/ user_data = {}
             /\ last' = [op |-> "get_user_stats", tid |-> tid, fault |-> f,
                         raised |-> f = "connect", found |-> FALSE,
                         log |-> IF f = "execute" THEN {"error"} ELSE {}]
       /\ UNCHANGED <<users, clicks, now>>

\* -------------------------------------------------------------- admin_panel
\* the account named by ADMIN_ID
ADMIN_IDS == {1}

\* datetime('now', '-7 days'); the clock counts days
ActiveDays == 7

\* an activity count that lost its WHERE clause
ActiveUsersNoWindow(U, t) ==
    Cardinality({r.telegram_id : r \in U})

\* SELECT COUNT(DISTINCT telegram_id) FROM users
\* WHERE last_active > datetime('now', '-7 days')
ActiveUsers(U, t) ==
    Cardinality({r.telegram_id : r \in {u \in U : u.last_active > t - ActiveDays}})

\* where a store fault may strike admin_panel; it has no try block
AdminFaults == {"none", "connect", "execute"}

AdminPanel(from_user, f) ==
    /\ \/ /\ from_user \notin ADMIN_IDS
          /\ f = "none"
          /\ last' = [op |-> "admin_panel", tid |-> from_user, fault |-> f,
                      raised |-> FALSE, path |-> "denied", log |-> {}]
       \/ /\ from_user \in ADMIN_IDS
          /\ f # "none"
          /\ last' = [op |-> "admin_panel", tid |-> from_user, fault |-> f,
                      raised |-> TRUE, path |-> "raised", log |-> {}]
       \/ /\ from_user \in ADMIN_IDS
          /\ f = "none"
          /\ \E platform_stats \in OrderByClicksDesc(GroupByPlatform(clicks)) :
                last' = [op |-> "admin_panel", tid |-> from_user, fault |-> f,
                         raised |-> FALSE, path |-> "read", log |-> {},
                         total_users |-> Cardinality(users),
                         total_clicks |-> Cardinality(clicks),
                         active_users |-> ActiveUsers(users, now),
                         platform_stats |-> platform_stats]
    /\ UNCHANGED <<users, clicks, now>>

\* --------------------------------------------------------------- handlers
\* Between the store calls of a handler there is no await, so they run as one
\* step.  A handler step records the handler the update was routed to (op), the
\* account that sent the update (from_user) and the id the store calls were
\* made for (tid).

\* the bot's own account, the author of every message a button is attached to
BotId == 0

\* the catalogue: the platform of each course (one course of COURSES_DATA)
COURSES_DATA == [course_id \in {5} |-> "skillbox"]

\* course ids a course_<id> callback may carry: one of the catalogue, one not
CallbackCourses == {5, 11}

\* what a handler step records when no store call raised
Handled(op, from_user, tid, path) ==
    [op |-> op, from_user |-> from_user, tid |-> tid, path |-> path,
     existed |-> TelegramIdTaken(users, tid), fault |-> "none",
     raised |-> FALSE]

\* start_command(message, command): add_user, then update_user_activity, both
\* for message.from_user.id
StartCommand(op, from_user, message, referrer) ==
    /\ users' = TouchUser(InsertUser(users, message, RefCode(message, now),
                                     referrer, now), message, now)
    /\ last' = Handled(op, from_user, message, "start")
    /\ UNCHANGED <<clicks, now>>

\* show_category, course_finder, about_bot and handle_unknown make one store
\* call: update_user_activity(message.from_user.id)
ActivityHandlers ==
    {"show_category", "course_finder", "about_bot", "handle_unknown"}

ShowCategory(op, from_user) ==
    /\ users' = TouchUser(users, from_user, now)
    /\ last' = Handled(op, from_user, from_user, "touch")
    /\ UNCHANGED <<clicks, now>>

\* show_course_detail: a callback for a course outside the catalogue is
\* answered without a store call; otherwise update_user_activity, then add_click
ShowCourseDetail(from_user, course_id) ==
    IF course_id \notin DOMAIN COURSES_DATA
    THEN /\ last' = Handled("show_course_detail", from_user, from_user, "no_course")
         /\ UNCHANGED <<users, clicks, now>>
    ELSE LET touched == TouchUser(users, from_user, now)
             user_id == SelectUserId(touched, from_user)
             platform == COURSES_DATA[course_id]
             known == platform \in PARTNER_LINKS /\ user_id # None
         IN /\ known => Cardinality(clicks) < MaxClicks
            /\ users' = IF known THEN CountClick(touched, user_id, now) ELSE touched
            /\ clicks' = IF known
                         THEN InsertClick(clicks, user_id, platform, course_id)
                         ELSE clicks
            /\ last' = Handled("show_course_detail", from_user, from_user,
                               IF known THEN "click" ELSE "touch")
            /\ UNCHANGED now

\* my_stats(message): update_user_activity, then get_user_stats, both for
\* message.from_user.id; partner_program makes the same two calls
MyStats(op, from_user, message) ==
    /\ users' = TouchUser(users, message, now)
    /\ last' = Handled(op, from_user, message,
                       IF UserData(users', clicks, message) = {}
                       THEN "no_stats" ELSE "stats")
    /\ UNCHANGED <<clicks, now>>

\* back_to_menu: await start_command(callback.message), without a command
BackToMenu(from_user) ==
    StartCommand("back_to_menu", from_user, BotId, None)

\* refresh_stats: await my_stats(callback.message)
RefreshStats(from_user) ==
    MyStats("refresh_stats", from_user, BotId)

\* ------------------------------------------------------------------ clock
\* time passes between calls (CURRENT_TIMESTAMP, datetime.now())
Tick ==
    /\ now < MaxTime
    /\ now' = now + 1
    /\ UNCHANGED <<users, clicks, last>>

\* a week passes between calls
Week ==
    /\ now <= MaxTime
    /\ now' = now + ActiveDays
    /\ UNCHANGED <<users, clicks, last>>

\* ------------------------------------------------------------ the callers
\* a handler calls a function with arguments drawn from these sets
Register(Referrers, Faults) ==
    \E tid \in TelegramIds, referrer \in Referrers, f \in Faults :
        AddUser(tid, referrer, f)

Touch(Faults) ==
    \E tid \in TelegramIds, f \in Faults : UpdateUserActivity(tid, f)

Click(Platforms, Courses, Faults) ==
    \E tid \in TelegramIds, platform \in Platforms, course_id \in Courses,
       f \in Faults : AddClick(tid, platform, course_id, f)

Stats(Faults) ==
    \E tid \in TelegramIds, f \in Faults : GetUserStats(tid, f)

Admin(Faults) ==
    \E from_user \in TelegramIds, f \in Faults : AdminPanel(from_user, f)

NoFault == {"none"}

\* the updates Telegram delivers, each from one of the accounts
Start(Referrers) ==
    \E from_user \in TelegramIds, referrer \in Referrers :
        StartCommand("start_command", from_user, from_user, referrer)

Message ==
    \E from_user \in TelegramIds, op \in ActivityHandlers :
        ShowCategory(op, from_user)

CourseCallback ==
    \E from_user \in TelegramIds, course_id \in CallbackCourses :
        ShowCourseDetail(from_user, course_id)

StatsMessage ==
    \E from_user \in TelegramIds, op \in {"my_stats", "partner_program"} :
        MyStats(op, from_user, from_user)

MenuBack == \E from_user \in TelegramIds : BackToMenu(from_user)

RefreshCallback == \E from_user \in TelegramIds : RefreshStats(from_user)

\* every call, every argument, every fault
Next ==
    \/ Register(TelegramIds \cup {None}, AddUserFaults)
    \/ Touch(ActivityFaults)
    \/ Click(PlatformArgs, CourseArgs, AddClickFaults)
    \/ Stats(StatsFaults)
    \/ Admin(AdminFaults)
    \/ Start(TelegramIds \cup {None})
    \/ Message
    \/ CourseCallback
    \/ StatsMessage
    \/ MenuBack
    \/ RefreshCallback
    \/ Tick
    \/ Week

Spec == Init /\ [][Next]_vars

\* The specifications below run the same calls with narrower argument sets, so
\* that each keeps the dimensions its claims are about.

\* the registry: registrations with every fault, interleaved with touches and
\* with clicks on one platform
RegistryNext ==
    \/ Register({None}, AddUserFaults)
    \/ Touch(NoFault)
    \/ Click({"skillbox"}, {5}, NoFault)
    \/ Tick

RegistrySpec == Init /\ [][RegistryNext]_vars

\* the ledger: clicks on a known and on a foreign platform with every fault,
\* interleaved with registrations and touches
LedgerNext ==
    \/ Register({None}, NoFault)
    \/ Touch(NoFault)
    \/ Click({"skillbox", "unknown_platform"}, {5}, AddClickFaults)
    \/ Tick

LedgerSpec == Init /\ [][LedgerNext]_vars

\* the aggregator: statistics read over every ledger content of the known
\* platforms; no statement of get_user_stats reads the clock or a timestamp,
\* so the calls all happen at one clock reading
StatsNext ==
    \/ Register({None}, NoFault)
    \/ Click(PARTNER_LINKS, {5}, NoFault)
    \/ Stats(StatsFaults)

StatsSpec == Init /\ [][StatsNext]_vars

\* referrer_id arguments: no deep link, or the deep link ?start=ref1
ReferrerArgs == {None, 1}

\* referrals: registrations without and with a referrer id, interleaved with
\* clicks on one platform (which also move last_active)
ReferralNext ==
    \/ Register(ReferrerArgs, NoFault)
    \/ Click({"skillbox"}, {5}, NoFault)
    \/ Tick

ReferralSpec == Init /\ [][ReferralNext]_vars

\* faults: every function of the core with every store fault, at one clock
\* reading
FaultNext ==
    \/ Register({None}, AddUserFaults)
    \/ Touch(ActivityFaults)
    \/ Click({"skillbox"}, {5}, AddClickFaults)
    \/ Stats(StatsFaults)
    \/ Admin(AdminFaults)

FaultSpec == Init /\ [][FaultNext]_vars

\* the admin panel: the global figures read while users register, are active
\* and click, over days and weeks
AdminNext ==
    \/ Register({None}, NoFault)
    \/ Touch(NoFault)
    \/ Click({"skillbox"}, {5}, NoFault)
    \/ Admin(NoFault)
    \/ Tick
    \/ Week

AdminSpec == Init /\ [][AdminNext]_vars

\* first contact: the messages and the course callback an account may send
ContactNext ==
    \/ Start({None})
    \/ Message
    \/ CourseCallback
    \/ StatsMessage
    \/ Tick

ContactSpec == Init /\ [][ContactNext]_vars

\* the buttons: the start and statistics messages and the callbacks that
\* re-enter their handlers
CallbackNext ==
    \/ Start({None})
    \/ StatsMessage
    \/ CourseCallback
    \/ MenuBack
    \/ RefreshCallback
    \/ Tick

CallbackSpec == Init /\ [][CallbackNext]_vars

\* the counter: clicks on two known and on a foreign platform with every fault,
\* interleaved with registrations, touches and statistics reads, at one clock
\* reading (no statement involved compares timestamps)
CounterNext ==
    \/ Register({None}, NoFault)
    \/ Touch(NoFault)
    \/ Click({"skillbox", "geekbrains", "unknown_platform"}, {5}, AddClickFaults)
    \/ Stats(NoFault)

CounterSpec == Init /\ [][CounterNext]_vars

\* =================================================================== claims
\* a step that is a call: the clock stands still, and last' describes the call
IsCall == now' = now

\* the user row a telegram id resolves to
RowOf(U, tid) == CHOOSE r \in U : r.telegram_id = tid

\* C1: after a successful add_click(u, p, c) for a registered user and a known
\* platform the ledger holds exactly one new row, with u's row id, platform p
\* and course c; u's clicks_count is one higher, u's last_active is the current
\* time, and every other user row and every earlier ledger row is as before.
C1_ClickRecorded ==
    [][(IsCall /\ last'.op = "add_click" /\ last'.path = "done") =>
        /\ last'.platform \in PARTNER_LINKS
        /\ TelegramIdTaken(users, last'.tid)
        /\ LET u == RowOf(users, last'.tid)
               new == clicks' \ clicks
           IN /\ clicks \subseteq clicks'
              /\ Cardinality(new) = 1
              /\ \A c \in new : /\ c.user_id = u.id
                                /\ c.platform = last'.platform
                                /\ c.course_id = last'.course_id
              /\ users' = (users \ {u}) \cup
                    {[u EXCEPT !.clicks_count = u.clicks_count + 1,
                               !.last_active = now]}]_vars

\* a click recorded for a user who had clicked before and had last been active
\* earlier, while another user is registered
C1_Witness ==
    /\ last.op = "add_click" /\ last.path = "done"
    /\ Cardinality(users) = 2
    /\ \E u \in users : /\ u.telegram_id = last.tid
                        /\ u.clicks_count = 2
                        /\ u.last_active = now
                        /\ u.registered_at < now

\* C2: when add_click faults at the insert, at the counter update or at the
\* commit, the store afterwards holds what it held before the call: no ledger
\* row, no counter increment and no activity refresh of the failed call.
C2_FailedClickLeavesNothing ==
    [][(IsCall /\ last'.op = "add_click"
          /\ last'.fault \in {"insert", "update", "commit"}) =>
        /\ users' = users
        /\ clicks' = clicks]_vars

\* the commit failed for a known platform and a registered user who had been
\* active earlier: the insert and the counter update had both run
C2_Witness ==
    /\ last.op = "add_click" /\ last.fault = "commit" /\ last.path = "except"
    /\ last.platform \in PARTNER_LINKS
    /\ \E u \in users : u.telegram_id = last.tid /\ u.last_active < now

\* C3: the users table holds at most one row per telegram id.
C3_OneRowPerTelegramId ==
    \A r1, r2 \in users : r1.telegram_id = r2.telegram_id => r1 = r2

\* add_user was called for an id that already had a row, at a time that gives
\* it another referral code than the stored one
C3_Witness ==
    /\ last.op = "add_user" /\ last.existed /\ last.fault = "none"
    /\ \E r \in users : r.telegram_id = last.tid /\ r.ref_code # last.ret

\* C4: add_user called for a telegram id that already has a row returns the
\* referral code stored in that row, the one the first registration returned.
C4_SecondCallReturnsStoredCode ==
    [][(IsCall /\ last'.op = "add_user" /\ last'.fault = "none"
          /\ TelegramIdTaken(users, last'.tid)) =>
        last'.ret = RowOf(users, last'.tid).ref_code]_vars

\* C5: no two user rows hold the same referral code, and two first-time
\* registrations with distinct telegram ids, one after the other, are never
\* handed the same code.
C5_DistinctCodes ==
    [][/\ \A r1, r2 \in users' : r1.ref_code = r2.ref_code => r1 = r2
       /\ (IsCall /\ last.op = "add_user" /\ last'.op = "add_user"
             /\ ~last.existed /\ ~last'.existed
             /\ last.ret # None /\ last'.ret # None
             /\ last.tid # last'.tid) =>
           last'.ret # last.ret]_vars

\* C6: when add_user is called for a telegram id without a row and returns a
\* referral code, a row for that id exists afterwards and holds that code.
C6_ReturnedCodeIsStored ==
    (last.op = "add_user" /\ ~last.existed /\ last.ret # None) =>
        \E r \in users : r.telegram_id = last.tid /\ r.ref_code = last.ret

\* C7: add_user for a telegram id that already has a row (the loser of a
\* registration race) completes normally: it returns a code, logs no error,
\* leaves the users table as it was, with exactly one row for the id.
C7_LoserIsAlreadyExists ==
    [][(IsCall /\ last'.op = "add_user" /\ last'.fault = "none"
          /\ TelegramIdTaken(users, last'.tid)) =>
        /\ users' = users
        /\ Cardinality({r \in users' : r.telegram_id = last'.tid}) = 1
        /\ ~last'.raised
        /\ last'.ret # None
        /\ "error" \notin last'.log]_vars

\* the second of two registrations of one id, made at the same clock reading
\* as the first, has returned
C7_Witness ==
    /\ last.op = "add_user" /\ last.existed /\ last.fault = "none"
    /\ \E r \in users : r.telegram_id = last.tid /\ r.registered_at = now

\* C8 as claimed: add_click for a registered user with a platform outside
\* PARTNER_LINKS leaves the ledger and the users table unchanged and returns a
\* value that differs from the one the successful add_click before it returned.
C8_RejectionReturnsFailure ==
    [][(IsCall /\ last'.op = "add_click" /\ last'.path = "unknown_platform"
          /\ TelegramIdTaken(users, last'.tid)) =>
        /\ clicks' = clicks
        /\ users' = users
        /\ (last.op = "add_click" /\ last.path = "done") => last'.ret # last.ret]_vars

\* C8 as amended: add_click for a registered user with a platform that is none
\* of skillbox, skillfactory, geekbrains leaves the ledger and the users table unchanged, logs a
\* warning and nothing else, raises nothing and returns None.
C8_RejectionIsSilent ==
    [][(IsCall /\ last'.op = "add_click" /\ last'.platform = "unknown_platform"
          /\ TelegramIdTaken(users, last'.tid)) =>
        /\ clicks' = clicks
        /\ users' = users
        /\ last'.log = {"warning"}
        /\ ~last'.raised
        /\ last'.ret = None]_vars

\* a click on a foreign platform was rejected for a user who has clicks
C8_Witness ==
    /\ last.op = "add_click" /\ last.platform = "unknown_platform"
    /\ last.path = "unknown_platform"
    /\ \E u \in users : u.telegram_id = last.tid /\ u.clicks_count > 0

\* C9: update_user_activity and add_click for a telegram id that has no row
\* leave the users table and the ledger as they were, and without a store
\* fault they raise nothing and log no error; every new ledger row refers to
\* a user row that existed before the call.
C9_UnknownUserIsNoOp ==
    [][/\ (IsCall /\ last'.op \in {"update_user_activity", "add_click"}
             /\ ~TelegramIdTaken(users, last'.tid)) =>
           /\ users' = users
           /\ clicks' = clicks
           /\ last'.fault = "none" => (~last'.raised /\ "error" \notin last'.log)
       /\ \A c \in clicks' \ clicks : \E u \in users : u.id = c.user_id]_vars

\* a click on a known platform for an id without a row, while another user
\* is registered and has clicks
C9_Witness ==
    /\ last.op = "add_click" /\ last.path = "not_found" /\ ~last.existed
    /\ last.platform \in PARTNER_LINKS
    /\ \A u \in users : u.telegram_id # last.tid
    /\ clicks # {}

\* C10: what get_user_stats returns for a registered user: platforms_clicks
\* lists each platform the user has ledger rows for exactly once, with the
\* number of the user's rows for it, in order of descending count, and
\* total_clicks is the number of the user's ledger rows.
C10_StatsMatchLedger ==
    (last.op = "get_user_stats" /\ last.found) =>
        /\ TelegramIdTaken(users, last.tid)
        /\ LET u == RowOf(users, last.tid)
               mine == {c \in clicks : c.user_id = u.id}
               pc == last.platforms_clicks
           IN /\ last.user.row = u
              /\ last.user.total_clicks = Cardinality(mine)
              /\ Len(pc) = Cardinality({c.platform : c \in mine})
              /\ \A c \in mine : \E i \in 1..Len(pc) : pc[i].platform = c.platform
              /\ \A i \in 1..Len(pc) :
                    pc[i].clicks = Cardinality({c \in mine : c.platform = pc[i].platform})
              /\ \A i, j \in 1..Len(pc) : i < j => pc[i].clicks >= pc[j].clicks

\* the example of the specification: skillbox, skillbox, geekbrains
C10_Witness ==
    /\ last.op = "get_user_stats" /\ last.found
    /\ last.user.total_clicks = 3
    /\ last.platforms_clicks = <<[platform |-> "skillbox", clicks |-> 2],
                                 [platform |-> "geekbrains", clicks |-> 1]>>

\* C11: every user row's referrer_id, if present, is the telegram id of a user
\* row that was inserted before it.
C11_ReferrerRegisteredBefore ==
    \A u \in users : u.referrer_id # None =>
        \E v \in users : v.telegram_id = u.referrer_id /\ v.id < u.id

\* C15: add_user called for a telegram id that already has a row leaves the
\* store as it was: the row keeps its ref_code, referrer_id, registered_at,
\* clicks_count and last_active, whatever referrer id the call carries.
C15_ExistingUserUntouched ==
    [][(IsCall /\ last'.op = "add_user" /\ TelegramIdTaken(users, last'.tid)) =>
        /\ TelegramIdTaken(users', last'.tid)
        /\ LET before == RowOf(users, last'.tid)
               after == RowOf(users', last'.tid)
           IN /\ after.ref_code = before.ref_code
              /\ after.referrer_id = before.referrer_id
              /\ after.registered_at = before.registered_at
              /\ after.clicks_count = before.clicks_count
              /\ after.last_active = before.last_active
        /\ users' = users
        /\ clicks' = clicks]_vars

\* add_user was called with a referrer id for a user who registered earlier
\* without one and has clicked since
C15_Witness ==
    /\ last.op = "add_user" /\ last.existed /\ last.referrer # None
    /\ \E r \in users : /\ r.telegram_id = last.tid
                        /\ r.referrer_id = None
                        /\ r.registered_at < now
                        /\ r.clicks_count > 0

\* C12: no function of the core lets a store fault reach its caller: whenever
\* a fault strikes, the call returns without raising and logs an error.
C12_NoFaultEscapes ==
    (last.op \in {"add_user", "update_user_activity", "add_click",
                  "get_user_stats", "admin_panel"} /\ last.fault # "none") =>
        ~last.raised /\ "error" \in last.log

\* C13: the active-users figure of admin_panel is the number of users whose
\* last_active lies less than seven days back, clicks or no clicks: a user last
\* active eight days ago is not counted, a user active now is.
C13_ActiveWindow ==
    [][(IsCall /\ last'.op = "admin_panel" /\ last'.path = "read") =>
        /\ last'.active_users =
              Cardinality({u \in users : now - u.last_active < 7})
        /\ last'.active_users <= Cardinality({u \in users : now - u.last_active # 8})
        /\ last'.active_users >= Cardinality({u \in users : u.last_active = now})]_vars

\* the panel counted one of two users: the one left out was last active eight
\* days ago and has clicks, the one counted is active now and has none
C13_Witness ==
    /\ last.op = "admin_panel" /\ last.path = "read"
    /\ last.active_users = 1
    /\ \E u, v \in users :
          /\ now - u.last_active = 8 /\ u.clicks_count > 0
          /\ \E c \in clicks : c.user_id = u.id
          /\ v.last_active = now /\ v.clicks_count = 0

\* C14: get_user_stats, when no fault strikes, returns None exactly for a
\* telegram id without a user row, raising and logging nothing; for a user with
\* a row and no clicks it returns a record with total_clicks 0, platforms_count
\* 0 and an empty platforms_clicks.
C14_AbsentOrZero ==
    [][(IsCall /\ last'.op = "get_user_stats" /\ last'.fault = "none") =>
        /\ last'.found <=> TelegramIdTaken(users, last'.tid)
        /\ ~last'.raised /\ last'.log = {}
        /\ (/\ TelegramIdTaken(users, last'.tid)
            /\ ~\E c \in clicks : c.user_id = RowOf(users, last'.tid).id) =>
              /\ last'.found
              /\ last'.user.row = RowOf(users, last'.tid)
              /\ last'.user.total_clicks = 0
              /\ last'.user.platforms_count = 0
              /\ last'.platforms_clicks = <<>>]_vars

\* statistics were asked for an id without a row, and came back absent, while
\* the store holds another user, with clicks
C14_Witness ==
    /\ last.op = "get_user_stats" /\ last.fault = "none" /\ ~last.found
    /\ ~TelegramIdTaken(users, last.tid)
    /\ \E u \in users : \E c \in clicks : c.user_id = u.id

\* the handlers an update is routed to
Handlers ==
    ActivityHandlers \cup {"start_command", "show_course_detail", "my_stats",
                           "partner_program", "back_to_menu", "refresh_stats"}

\* C16: once a handler has handled an update of an account, the account has a
\* user row; if it had one already, the row is the same row (same id, code,
\* referrer, registration time) and only activity columns moved.
C16_CreatedOnFirstContact ==
    [][(IsCall /\ last'.op \in Handlers /\ last'.path # "no_course") =>
        /\ TelegramIdTaken(users', last'.from_user)
        /\ TelegramIdTaken(users, last'.from_user) =>
              LET before == RowOf(users, last'.from_user)
                  after == RowOf(users', last'.from_user)
              IN /\ after.id = before.id
                 /\ after.ref_code = before.ref_code
                 /\ after.referrer_id = before.referrer_id
                 /\ after.registered_at = before.registered_at]_vars

\* C18: a handler makes its store calls for the account that sent the update,
\* and no user row exists for the bot's own account.
C18_ActsOnSender ==
    /\ last.op \in Handlers => last.tid = last.from_user
    /\ \A u \in users : u.telegram_id # BotId

\* C17: every user's clicks_count is the number of ledger rows with its row id,
\* every ledger row belongs to an existing user and names a known platform, and
\* the statistics get_user_stats returns carry a total_clicks equal to the
\* clicks_count of the row they carry.
C17_CounterMatchesLedger ==
    /\ \A u \in users :
          u.clicks_count = Cardinality({c \in clicks : c.user_id = u.id})
    /\ \A c \in clicks :
          /\ \E u \in users : u.id = c.user_id
          /\ c.platform \in {"skillbox", "skillfactory", "geekbrains"}
    /\ (last.op = "get_user_stats" /\ last.found) =>
          last.user.total_clicks = last.user.row.clicks_count

\* statistics were read for a user with two clicks while another user has one
C17_Witness ==
    /\ last.op = "get_user_stats" /\ last.found
    /\ last.user.total_clicks = 2
    /\ \E u \in users : u.telegram_id # last.tid /\ u.clicks_count = 1
    /\ \E u \in users : u.telegram_id = last.tid /\ u.id # u.telegram_id

====
